---- MODULE Spec2Model ----
(***************************************************************************)
(* Tunnel establishment of the shoes proxy: the Shadowsocks handshake      *)
(* handler (shadowsocks_tcp_handler.rs) and the TCP/QUIC client connector  *)
(* (tcp_client_connector.rs).                                              *)
(*                                                                         *)
(* Four specifications share the definitions below:                        *)
(*   Spec           one tunnel: setup_client_stream on one end of a stream *)
(*                  and setup_server_stream on the other, or               *)
(*                  setup_server_stream alone on a captured raw stream;    *)
(*   SpecReplay     several server connections of one handler instance,    *)
(*                  sharing its salt checker, with a clock;                *)
(*   SpecConnector  TcpClientConnector::try_from and concurrent connect    *)
(*                  calls, one per task, on the connector it built;        *)
(*   SpecRoundRobin a QUIC connector whose tasks call connect again and    *)
(*                  again, until the endpoint counter has wrapped.         *)
(***************************************************************************)
EXTENDS Integers, Sequences, FiniteSets, TLC

VARIABLES
    handler,      \* ShadowsocksTcpHandler: [aead2022, key, salt_checker]
    salts,        \* contents of the handler's TimedSaltChecker: {[salt, time]}
    now,          \* wall clock, seconds
    wire,         \* per connection: the raw stream from the client to the server
    client,       \* per connection: the setup_client_stream call and its caller
    server,       \* per connection: the setup_server_stream call
    connector,    \* the TcpClientConnector built by try_from, or why there is none
    next_endpoint_index, \* TransportConfig::Quic.next_endpoint_index (AtomicU8)
    calls,        \* per connect call: its position and locals
    picked,       \* endpoint indices chosen by connect, oldest first (observer)
    selections    \* how many connect calls have chosen an endpoint (observer)

hvars == <<handler, salts, now, wire, client, server>>
cvars == <<connector, next_endpoint_index, calls, picked, selections>>
vars == <<handler, salts, now, wire, client, server,
          connector, next_endpoint_index, calls, picked, selections>>

-----------------------------------------------------------------------------
(* Bytes, integers of fixed width                                          *)

\* u16::to_be_bytes
ToBeBytes(n) == <<(n \div 256) % 256, n % 256>>

\* u16::from_be_bytes
FromBeBytes(b) == b[1] * 256 + b[2]

Take(s, n) == SubSeq(s, 1, n)

-----------------------------------------------------------------------------
(* NetLocation and its wire encoding (crate::socks_handler)                *)

ExampleOrg == <<101, 120, 97, 109, 112, 108, 101, 46, 111, 114, 103>>

Destinations ==
    { [kind |-> "hostname", host |-> ExampleOrg, port |-> 443],
      [kind |-> "hostname", host |-> <<97>>, port |-> 256],
      [kind |-> "ipv4", host |-> <<192, 0, 2, 1>>, port |-> 1],
      [kind |-> "ipv6", host |-> [i \in 1..16 |-> IF i = 16 THEN 1 ELSE 0],
       port |-> 65535] }

NoLocation == [kind |-> "none", host |-> <<>>, port |-> 0]

\* write_location_to_vec: type tag, host (length-prefixed for a hostname), port
write_location_to_vec(loc) ==
    LET body == CASE loc.kind = "ipv4" -> <<1>> \o loc.host
                  [] loc.kind = "hostname" -> <<3, Len(loc.host)>> \o loc.host
                  [] loc.kind = "ipv6" -> <<4>> \o loc.host
    IN  body \o ToBeBytes(loc.port)

\* The bytes read_location needs once it has seen the first k bytes of s:
\* the tag, then for a hostname its length byte, then host and port.
LocationNeed(s) ==
    IF Len(s) = 0 THEN 1
    ELSE CASE s[1] = 1 -> 1 + 4 + 2
           [] s[1] = 4 -> 1 + 16 + 2
           [] s[1] = 3 -> IF Len(s) < 2 THEN 2 ELSE 2 + s[2] + 2
           [] OTHER -> 0

\* read_location on the plaintext s: what it returns and how many bytes it
\* consumed.  "eof": s ends inside the address.
read_location(s) ==
    LET need == LocationNeed(s) IN
    IF need = 0
    THEN [status |-> "invalid", loc |-> NoLocation, used |-> 1]
    ELSE IF Len(s) < need \/ need < 3
    THEN [status |-> "eof", loc |-> NoLocation, used |-> Len(s)]
    ELSE LET hostAt == IF s[1] = 3 THEN 3 ELSE 2
             host == SubSeq(s, hostAt, need - 2)
             port == FromBeBytes(SubSeq(s, need - 1, need))
             kind == CASE s[1] = 1 -> "ipv4" [] s[1] = 3 -> "hostname"
                       [] OTHER -> "ipv6"
         IN  [status |-> "ok",
              loc |-> [kind |-> kind, host |-> host, port |-> port],
              used |-> need]

-----------------------------------------------------------------------------
(* The framed stream (ShadowsocksStream), the salt checker, the handler    *)

Keys == {1, 200}

Salts == {"s1", "s2"}

NoSalt == "none"

\* a checker that keeps its salts a thousand times as long
Window_too_long == 60 * 1000

\* TimedSaltChecker::new(60)
Window == 60

\* the 2-byte padding length setup_server_stream accepts at most
ServerMaxPadding == 900

\* the upper end of the client's rng.gen_range(1..=900)
ClientMaxPadding == 900

\* the application bytes a caller sends once the tunnel is set up
AppData == <<71, 69>>

Encrypt(b, key) == (b + key) % 256

Decrypt(b, key) == (b + 256 - key) % 256

EncryptSeq(s, key) == [i \in 1..Len(s) |-> Encrypt(s[i], key)]

DecryptSeq(s, key) == [i \in 1..Len(s) |-> Decrypt(s[i], key)]

\* ShadowsocksTcpHandler::new(cipher_name, password)
new(key) == [aead2022 |-> FALSE, key |-> key, salt_checker |-> "None"]

\* new_aead2022 installing no salt checker
new_aead2022_no_checker(key) ==
    [aead2022 |-> TRUE, key |-> key, salt_checker |-> "None"]

\* ShadowsocksTcpHandler::new_aead2022(cipher_name, key_bytes)
new_aead2022(key) == [aead2022 |-> TRUE, key |-> key, salt_checker |-> "Some"]

\* what was put on a raw stream (observer, read by no action): the
\* destination, the declared padding length (-1: none) and whether the
\* header is all there
NothingSent == [dest |-> NoLocation, declared |-> 0 - 1, whole |-> FALSE]

\* A raw stream: the salt, then the records.  hdr and app are ciphertext;
\* between them lie `fill` padding bytes, whose values nobody reads.
EmptyWire == [salt |-> NoSalt, hdr |-> <<>>, fill |-> 0, app |-> <<>>,
              closed |-> FALSE, sent |-> NothingSent]

StreamLen(w) == Len(w.hdr) + w.fill + Len(w.app)

\* the plaintext of the stream up to its first padding byte
PlainPrefix(w, key) ==
    DecryptSeq(w.hdr, key) \o (IF w.fill = 0 THEN DecryptSeq(w.app, key) ELSE <<>>)

\* the plaintext byte at position i (from 1) of the stream
PlainAt(w, key, i) ==
    IF i <= Len(w.hdr)
    THEN [kind |-> "data", byte |-> Decrypt(w.hdr[i], key)]
    ELSE IF i <= Len(w.hdr) + w.fill
    THEN [kind |-> "padding", byte |-> 0]
    ELSE IF i <= StreamLen(w)
    THEN [kind |-> "data",
          byte |-> Decrypt(w.app[i - Len(w.hdr) - w.fill], key)]
    ELSE [kind |-> "end", byte |-> 0]

\* TimedSaltChecker: the entries still inside the trailing window at time t
Unexpired(set, t) == {e \in set : t - e.time <= Window}

\* SaltChecker::insert_and_check: TRUE when the salt is new
SaltIsNew(set, salt, t) == \A e \in Unexpired(set, t) : e.salt # salt

SaltsAfterCheck(set, salt, t) ==
    IF SaltIsNew(set, salt, t)
    THEN Unexpired(set, t) \cup {[salt |-> salt, time |-> t]}
    ELSE Unexpired(set, t)

-----------------------------------------------------------------------------
(* setup_client_stream                                                     *)

NoVec == [bytes |-> <<>>, fill |-> 0]

IdleClient == [pc |-> "absent", remote_location |-> NoLocation,
               stream_type |-> "none", location_vec |-> NoVec,
               salt |-> NoSalt, buffered |-> NoVec, padding_len |-> 0,
               result |-> "none"]

NewClient(d) == [IdleClient EXCEPT !.pc = "start", !.remote_location = d]

\* ClientHeader with the padding length stored two bytes too early, over the
\* port of the address
ClientHeader_len_over_port(remote_location, aead2022, padding_len) ==
    LET location_vec == write_location_to_vec(remote_location)
        location_len == Len(location_vec)
        padding_len_bytes == ToBeBytes(padding_len % 65536)
    IN  IF aead2022
        THEN [bytes |-> Take(location_vec, location_len - 2) \o padding_len_bytes
                          \o padding_len_bytes,
              fill |-> padding_len]
        ELSE [bytes |-> location_vec, fill |-> 0]

\* ClientHeader with the padding length stored low byte first
ClientHeader_little_endian(remote_location, aead2022, padding_len) ==
    LET location_vec == write_location_to_vec(remote_location)
    IN  IF aead2022
        THEN [bytes |-> location_vec \o <<padding_len % 256, padding_len \div 256>>,
              fill |-> padding_len]
        ELSE [bytes |-> location_vec, fill |-> 0]

\* lines 142-159: location_vec as it is handed to write_all.  bytes are the
\* bytes with a meaning, fill the number of random bytes after them.
ClientHeader(remote_location, aead2022, padding_len) ==
    LET location_vec == write_location_to_vec(remote_location)
        location_len == Len(location_vec)
        new_len == location_len + padding_len + 2
        padding_len_bytes == ToBeBytes(padding_len % 65536)
    IN  IF aead2022
        THEN [bytes |-> location_vec \o padding_len_bytes,
              fill |-> new_len - (location_len + 2)]
        ELSE [bytes |-> location_vec, fill |-> 0]

\* lines 127-140
ClientWrap(c) ==
    /\ client[c].pc = "start"
    /\ client' = [client EXCEPT ![c].pc = "build",
                     ![c].stream_type =
                         IF handler.aead2022 THEN "AEAD2022Client" ELSE "AEAD"]
    /\ UNCHANGED <<handler, salts, now, wire, server, cvars>>

\* lines 142-159
ClientBuildHeader(c) ==
    /\ client[c].pc = "build"
    /\ IF handler.aead2022
       THEN \E padding_len \in 1..ClientMaxPadding :
               client' = [client EXCEPT ![c].pc = "write",
                             ![c].padding_len = padding_len,
                             ![c].location_vec =
                                 ClientHeader(client[c].remote_location,
                                              TRUE, padding_len)]
       ELSE client' = [client EXCEPT ![c].pc = "write",
                          ![c].location_vec =
                              ClientHeader(client[c].remote_location, FALSE, 0)]
    /\ UNCHANGED <<handler, salts, now, wire, server, cvars>>

\* line 161: write_all.  The framed stream draws its salt at the first write
\* and keeps the encrypted record until it is flushed.
ClientWriteAll(c) ==
    /\ client[c].pc = "write"
    /\ \/ /\ \E s \in Salts :
                client' = [client EXCEPT ![c].pc = "flush", ![c].salt = s,
                              ![c].buffered =
                                  [bytes |-> EncryptSeq(client[c].location_vec.bytes,
                                                        handler.key),
                                   fill |-> client[c].location_vec.fill]]
          /\ wire' = wire
       \/ /\ client' = [client EXCEPT ![c].pc = "done", ![c].result = "Err"]
          /\ wire' = [wire EXCEPT ![c].closed = TRUE]
    /\ UNCHANGED <<handler, salts, now, server, cvars>>

\* setup_client_stream returning Ok without the flush of line 162
ClientFlush_left_out(c) ==
    /\ client[c].pc = "flush"
    /\ client' = [client EXCEPT ![c].pc = "done", ![c].result = "Ok"]
    /\ wire' = wire
    /\ UNCHANGED <<handler, salts, now, server, cvars>>

\* lines 162-164: flush, then Ok(TcpClientSetupResult { client_stream })
ClientFlush(c) ==
    /\ client[c].pc = "flush"
    /\ \/ /\ client' = [client EXCEPT ![c].pc = "done", ![c].result = "Ok",
                           ![c].buffered = NoVec]
          /\ wire' = [wire EXCEPT ![c].salt = client[c].salt,
                         ![c].hdr = client[c].buffered.bytes,
                         ![c].fill = client[c].buffered.fill,
                         ![c].sent =
                             [dest |-> client[c].remote_location,
                              declared |-> IF handler.aead2022
                                           THEN client[c].padding_len
                                           ELSE 0 - 1,
                              whole |-> TRUE]]
       \/ /\ client' = [client EXCEPT ![c].pc = "done", ![c].result = "Err"]
          /\ wire' = [wire EXCEPT ![c].closed = TRUE]
    /\ UNCHANGED <<handler, salts, now, server, cvars>>

\* the caller of setup_client_stream relays application data on the stream
\* it got back
CallerSendApp(c) ==
    /\ client[c].pc = "done"
    /\ client[c].result = "Ok"
    /\ client' = [client EXCEPT ![c].pc = "relaying"]
    /\ wire' = [wire EXCEPT ![c].app = EncryptSeq(AppData, handler.key)]
    /\ UNCHANGED <<handler, salts, now, server, cvars>>

\* ... and closes it
CallerClose(c) ==
    /\ client[c].pc = "relaying"
    /\ client' = [client EXCEPT ![c].pc = "closed"]
    /\ wire' = [wire EXCEPT ![c].closed = TRUE]
    /\ UNCHANGED <<handler, salts, now, server, cvars>>

-----------------------------------------------------------------------------
(* setup_server_stream                                                     *)

NoResult == [status |-> "none", error |-> "none", remote_location |-> NoLocation,
             need_initial_flush |-> FALSE,
             connection_success_response |-> "None",
             initial_remote_data |-> "None",
             override_proxy_provider |-> "Unspecified"]

\* opened_at and failed_at are observers: when the call took the salt off
\* the stream, and the step an error came from.  wrote and flushed are what
\* the call did on the write half of its stream: lines 66-116 only read, so
\* no step below touches them.
NewServer == [pc |-> "start", stream_type |-> "none", salt_checker |-> "None",
              rpos |-> 0, remote_location |-> NoLocation, padding_len |-> 0,
              opened_at |-> 0 - 1, failed_at |-> "none", result |-> NoResult,
              wrote |-> <<>>, flushed |-> FALSE]

\* a result that asks the caller for a flush before any response data
OkResult_initial_flush(remote_location) ==
    [NoResult EXCEPT !.status = "Ok", !.remote_location = remote_location,
                     !.need_initial_flush = TRUE]

\* lines 107-115
OkResult(remote_location) ==
    [status |-> "Ok", error |-> "none", remote_location |-> remote_location,
     need_initial_flush |-> FALSE,
     connection_success_response |-> "None",
     initial_remote_data |-> "None",
     override_proxy_provider |-> "Unspecified"]

ErrResult(kind) ==
    [NoResult EXCEPT !.status = "Err", !.error = kind]

\* the `?` of lines 87, 91, 103 and the return of line 95: the call ends
\* with an error, at the step it was in
ServerFail(c, kind, rpos) ==
    server' = [server EXCEPT ![c].pc = "done", ![c].failed_at = server[c].pc,
                  ![c].rpos = rpos, ![c].result = ErrResult(kind)]

\* the check of the padding length, one too lenient
PaddingLenRejected_lenient(padding_len) == padding_len > ServerMaxPadding + 1

\* the check of the padding length, one too strict
PaddingLenRejected_strict(padding_len) == padding_len >= ServerMaxPadding

\* line 94: the check of the declared padding length
PaddingLenRejected(padding_len) == padding_len > ServerMaxPadding

\* a padding block expected of every variant
ServerExpectsPadding_always(h) == TRUE

\* line 89: only the AEAD-2022 variant has a padding block
ServerExpectsPadding(h) == h.aead2022

\* lines 70-83: ShadowsocksStream::new returns the stream; nothing is read yet
ServerWrap(c) ==
    /\ server[c].pc = "start"
    /\ server' = [server EXCEPT ![c].pc = "open",
                     ![c].stream_type =
                         IF handler.aead2022 THEN "AEAD2022Server" ELSE "AEAD",
                     ![c].salt_checker = handler.salt_checker]
    /\ UNCHANGED <<handler, salts, now, wire, client, cvars>>

\* a first read that asks the salt checker and lets go of its lock before
\* the salt is recorded, the record being lost
ServerOpen_records_nothing(c) ==
    /\ server[c].pc = "open"
    /\ wire[c].salt # NoSalt
    /\ salts' = salts
    /\ IF SaltIsNew(salts, wire[c].salt, now)
       THEN server' = [server EXCEPT ![c].pc = "read_location",
                          ![c].opened_at = now]
       ELSE server' = [server EXCEPT ![c].pc = "done",
                          ![c].failed_at = "open",
                          ![c].opened_at = now,
                          ![c].result = ErrResult("DuplicateSalt")]
    /\ UNCHANGED <<handler, now, wire, client, cvars>>

\* line 87, the first read of the framed stream: it takes the salt off the
\* raw stream and, holding the checker's lock, asks the salt checker
ServerOpen(c) ==
    /\ server[c].pc = "open"
    /\ IF wire[c].salt = NoSalt
       THEN /\ wire[c].closed
            /\ ServerFail(c, "UnexpectedEof", 0)
            /\ salts' = salts
       ELSE IF server[c].stream_type = "AEAD2022Server"
               /\ server[c].salt_checker = "Some"
       THEN /\ salts' = SaltsAfterCheck(salts, wire[c].salt, now)
            /\ IF SaltIsNew(salts, wire[c].salt, now)
               THEN server' = [server EXCEPT ![c].pc = "read_location",
                                  ![c].opened_at = now]
               ELSE server' = [server EXCEPT ![c].pc = "done",
                                  ![c].failed_at = "open",
                                  ![c].opened_at = now,
                                  ![c].result = ErrResult("DuplicateSalt")]
       ELSE /\ salts' = salts
            /\ server' = [server EXCEPT ![c].pc = "read_location",
                             ![c].opened_at = now]
    /\ UNCHANGED <<handler, now, wire, client, cvars>>

\* lines 87-89 and, for the legacy variant, 107-115
ServerReadLocation(c) ==
    /\ server[c].pc = "read_location"
    /\ LET r == read_location(PlainPrefix(wire[c], handler.key)) IN
       CASE r.status = "ok" ->
              IF ServerExpectsPadding(handler)
              THEN server' = [server EXCEPT ![c].pc = "read_padding_len",
                                 ![c].rpos = r.used,
                                 ![c].remote_location = r.loc]
              ELSE server' = [server EXCEPT ![c].pc = "done",
                                 ![c].rpos = r.used,
                                 ![c].remote_location = r.loc,
                                 ![c].result = OkResult(r.loc)]
         [] r.status = "invalid" -> ServerFail(c, "InvalidData", r.used)
         [] OTHER -> /\ wire[c].closed
                     /\ ServerFail(c, "UnexpectedEof", r.used)
    /\ UNCHANGED <<handler, salts, now, wire, client, cvars>>

\* lines 90-101 and, for a padding length of 0, 107-115
ServerReadPaddingLen(c) ==
    /\ server[c].pc = "read_padding_len"
    /\ LET plain == PlainPrefix(wire[c], handler.key)
           rpos == server[c].rpos
       IN  IF Len(plain) < rpos + 2
           THEN /\ wire[c].closed
                /\ ServerFail(c, "UnexpectedEof", Len(plain))
           ELSE LET padding_len_bytes == SubSeq(plain, rpos + 1, rpos + 2)
                    padding_len == FromBeBytes(padding_len_bytes)
                IN  IF PaddingLenRejected(padding_len)
                    THEN server' = [server EXCEPT ![c].pc = "done",
                                       ![c].failed_at = "read_padding_len",
                                       ![c].rpos = rpos + 2,
                                       ![c].padding_len = padding_len,
                                       ![c].result = ErrResult("InvalidData")]
                    ELSE IF padding_len > 0
                    THEN server' = [server EXCEPT ![c].pc = "read_padding",
                                       ![c].rpos = rpos + 2,
                                       ![c].padding_len = padding_len]
                    ELSE server' = [server EXCEPT ![c].pc = "done",
                                       ![c].rpos = rpos + 2,
                                       ![c].padding_len = padding_len,
                                       ![c].result =
                                           OkResult(server[c].remote_location)]
    /\ UNCHANGED <<handler, salts, now, wire, client, cvars>>

\* a padding read that is content with the bytes that are there (read in
\* place of read_exact)
ServerReadPadding_short_read(c) ==
    /\ server[c].pc = "read_padding"
    /\ LET rpos == server[c].rpos
           padding_len == server[c].padding_len
           there == StreamLen(wire[c])
       IN  server' = [server EXCEPT ![c].pc = "done",
                         ![c].rpos = IF there < rpos + padding_len
                                     THEN there ELSE rpos + padding_len,
                         ![c].result = OkResult(server[c].remote_location)]
    /\ UNCHANGED <<handler, salts, now, wire, client, cvars>>

\* lines 102-103 and 107-115
ServerReadPadding(c) ==
    /\ server[c].pc = "read_padding"
    /\ LET rpos == server[c].rpos
           padding_len == server[c].padding_len
       IN  IF StreamLen(wire[c]) < rpos + padding_len
           THEN /\ wire[c].closed
                /\ ServerFail(c, "UnexpectedEof", StreamLen(wire[c]))
           ELSE server' = [server EXCEPT ![c].pc = "done",
                              ![c].rpos = rpos + padding_len,
                              ![c].result =
                                  OkResult(server[c].remote_location)]
    /\ UNCHANGED <<handler, salts, now, wire, client, cvars>>

\* what the caller of setup_server_stream reads first from the stream it got
FirstDelivered(c) == PlainAt(wire[c], handler.key, server[c].rpos + 1)

-----------------------------------------------------------------------------
(* Captured raw streams, as a test or an attacker hands them to            *)
(* setup_server_stream                                                     *)

\* declared padding lengths: around 0, a byte boundary, the limit, the top
CraftedLens ==
    {0, 1, 255, 256, ServerMaxPadding - 1, ServerMaxPadding,
     ServerMaxPadding + 1, ServerMaxPadding + 2, 65535}

\* the header of destination d declaring a padding of len bytes
PlainHeader(d, aead2022, len) ==
    write_location_to_vec(d) \o (IF aead2022 THEN ToBeBytes(len) ELSE <<>>)

CraftedWire(h, salt, d, len, fill, app) ==
    [salt |-> salt,
     hdr |-> EncryptSeq(PlainHeader(d, h.aead2022, len), h.key),
     fill |-> fill,
     app |-> EncryptSeq(app, h.key),
     closed |-> TRUE,
     sent |-> [dest |-> d, declared |-> IF h.aead2022 THEN len ELSE 0 - 1,
               whole |-> TRUE]]

\* complete headers, with the declared padding present or cut short, followed
\* by application data or by nothing
WholeWires(h, salt) ==
    UNION { { CraftedWire(h, salt, d, len, fill, app) :
                d \in Destinations,
                fill \in (IF h.aead2022
                          THEN {0, len, len + 1, IF len > 0 THEN len - 1 ELSE 0}
                          ELSE {0}),
                app \in {<<>>, AppData} } :
              len \in (IF h.aead2022 THEN CraftedLens ELSE {0}) }

\* streams that end inside the address or the padding length
CutWires(h, salt) ==
    UNION { { [w EXCEPT !.hdr = Take(w.hdr, k), !.sent.whole = FALSE] :
                k \in 0..(Len(w.hdr) - 1) } :
              w \in { CraftedWire(h, salt, d, 1, 0, <<>>) : d \in Destinations } }

-----------------------------------------------------------------------------
(* One tunnel                                                              *)

Handlers == {new(k) : k \in Keys} \cup {new_aead2022(k) : k \in Keys}

NoConnector == [state |-> "none"]

ConnectorIdle ==
    /\ connector = NoConnector
    /\ next_endpoint_index = 0
    /\ calls = <<>>
    /\ picked = <<>>
    /\ selections = 0

Init ==
    /\ handler \in Handlers
    /\ salts = {}
    /\ now = 0
    /\ server = [c \in {1} |-> NewServer]
    /\ \/ /\ wire = [c \in {1} |-> EmptyWire]
          /\ \E d \in Destinations : client = [c \in {1} |-> NewClient(d)]
       \/ /\ \E w \in WholeWires(handler, "s1") \cup CutWires(handler, "s1") :
                wire = [c \in {1} |-> w]
          /\ client = [c \in {1} |-> IdleClient]
    /\ ConnectorIdle

Next ==
    \/ \E c \in DOMAIN wire : ClientWrap(c)
    \/ \E c \in DOMAIN wire : ClientBuildHeader(c)
    \/ \E c \in DOMAIN wire : ClientWriteAll(c)
    \/ \E c \in DOMAIN wire : ClientFlush(c)
    \/ \E c \in DOMAIN wire : CallerSendApp(c)
    \/ \E c \in DOMAIN wire : CallerClose(c)
    \/ \E c \in DOMAIN wire : ServerWrap(c)
    \/ \E c \in DOMAIN wire : ServerOpen(c)
    \/ \E c \in DOMAIN wire : ServerReadLocation(c)
    \/ \E c \in DOMAIN wire : ServerReadPaddingLen(c)
    \/ \E c \in DOMAIN wire : ServerReadPadding(c)

Spec == Init /\ [][Next]_vars

-----------------------------------------------------------------------------
(* Properties of one tunnel                                                *)

Conns == DOMAIN wire

ClientBuilt(c) == client[c].pc \in {"write", "flush", "done", "relaying", "closed"}

FirstAppByte == [kind |-> "data", byte |-> AppData[1]]

\* C1: whenever setup_client_stream succeeded for destination D on one end
\* of a stream and setup_server_stream has finished on the other end, the
\* server's result is Ok and its remote_location is exactly D, for both
\* variants and every key.
RoundTrip ==
    \A c \in Conns :
        (client[c].result = "Ok" /\ server[c].pc = "done") =>
            /\ server[c].result.status = "Ok"
            /\ server[c].result.remote_location = client[c].remote_location

RoundTripWitness ==
    \E c \in Conns :
        /\ handler.aead2022
        /\ client[c].result = "Ok"
        /\ client[c].remote_location.host = ExampleOrg
        /\ server[c].pc = "done"
        /\ server[c].result.status = "Ok"

\* C4: an AEAD-2022 server given a header that declares a padding of 901 or
\* more bytes never enters the padding read, and ends with an InvalidData
\* error, no destination, and the stream consumed up to the end of the
\* 2-byte length and no further.
OversizePaddingRejected ==
    \A c \in Conns :
        (handler.aead2022 /\ wire[c].sent.whole /\ wire[c].sent.declared >= 901) =>
            /\ server[c].pc # "read_padding"
            /\ server[c].pc = "done" =>
                  /\ server[c].result.status = "Err"
                  /\ server[c].result.error = "InvalidData"
                  /\ server[c].result.remote_location = NoLocation
                  /\ server[c].rpos = Len(wire[c].hdr)

OversizePaddingWitness ==
    \E c \in Conns :
        /\ handler.aead2022
        /\ wire[c].sent.whole
        /\ wire[c].sent.declared = 901
        /\ wire[c].fill = 901
        /\ server[c].pc = "done"
        /\ server[c].result.error = "InvalidData"

\* C5: an AEAD-2022 server given a complete header that declares a padding
\* of L bytes, 0 <= L <= 900, on a stream that holds them, succeeds having
\* consumed the address, the 2-byte length and L more bytes: the next byte
\* it delivers is the first application byte.  For L = 0 it never enters the
\* padding read.
PaddingConsumedExactly ==
    \A c \in Conns :
        LET L == wire[c].sent.declared IN
        (/\ handler.aead2022
         /\ wire[c].sent.whole
         /\ 0 <= L /\ L <= 900
         /\ wire[c].fill + Len(wire[c].app) >= L) =>
            /\ L = 0 => server[c].pc # "read_padding"
            /\ server[c].pc = "done" =>
                  /\ server[c].result.status = "Ok"
                  /\ server[c].result.remote_location = wire[c].sent.dest
                  /\ server[c].rpos =
                         Len(write_location_to_vec(wire[c].sent.dest)) + 2 + L
                  /\ (wire[c].fill = L /\ wire[c].app # <<>>) =>
                         FirstDelivered(c) = FirstAppByte

PaddingConsumedWitness ==
    \E c \in Conns :
        /\ handler.aead2022
        /\ wire[c].sent.whole
        /\ wire[c].sent.declared = 0
        /\ wire[c].app # <<>>
        /\ server[c].pc = "done"
        /\ server[c].result.status = "Ok"
        /\ FirstDelivered(c) = FirstAppByte

\* C6: the header an AEAD-2022 client writes is the encoded location, then
\* two bytes that read big-endian give the number of padding bytes that
\* follow, a number from 1 to 900; it reaches the raw stream like that, and
\* the server never answers a client's header with InvalidData.
ClientHeaderFormat ==
    \A c \in Conns :
        (handler.aead2022 /\ ClientBuilt(c)) =>
            LET v == client[c].location_vec
                a == write_location_to_vec(client[c].remote_location)
                n == Len(a)
            IN  /\ Len(v.bytes) = n + 2
                /\ SubSeq(v.bytes, 1, n) = a
                /\ v.bytes[n + 1] * 256 + v.bytes[n + 2] = v.fill
                /\ 1 <= v.fill /\ v.fill <= 900
                /\ client[c].result = "Ok" =>
                      /\ DecryptSeq(wire[c].hdr, handler.key) = v.bytes
                      /\ wire[c].fill = v.fill
                /\ server[c].result.error # "InvalidData"

ClientHeaderWitness ==
    \E c \in Conns :
        /\ handler.aead2022
        /\ client[c].result = "Ok"
        /\ client[c].location_vec.fill = 900
        /\ server[c].pc = "done"
        /\ server[c].result.status = "Ok"

\* C7: with a legacy AEAD handler the client writes the encoded address and
\* nothing else, the server never reads a padding length or a padding, and
\* on a complete address it succeeds having consumed the address alone,
\* also when the stream ends right there; the next byte it delivers is the
\* first application byte.
LegacyNoPadding ==
    ~handler.aead2022 =>
        \A c \in Conns :
            LET a == write_location_to_vec(client[c].remote_location) IN
            /\ ClientBuilt(c) => client[c].location_vec = [bytes |-> a, fill |-> 0]
            /\ client[c].result = "Ok" =>
                  /\ DecryptSeq(wire[c].hdr, handler.key) = a
                  /\ wire[c].fill = 0
            /\ server[c].pc \notin {"read_padding_len", "read_padding"}
            /\ (wire[c].sent.whole /\ server[c].pc = "done") =>
                  /\ server[c].result.status = "Ok"
                  /\ server[c].rpos = Len(write_location_to_vec(wire[c].sent.dest))
                  /\ wire[c].app # <<>> => FirstDelivered(c) = FirstAppByte

LegacyNoPaddingWitness ==
    \E c \in Conns :
        /\ ~handler.aead2022
        /\ client[c].pc = "absent"
        /\ wire[c].sent.whole
        /\ wire[c].app = <<>>
        /\ server[c].pc = "done"
        /\ server[c].result.status = "Ok"

\* the stream of c ends inside the header: inside the address or the
\* padding length, or before the last of the declared padding bytes
HeaderCutShort(c) ==
    \/ ~wire[c].sent.whole
    \/ /\ handler.aead2022
       /\ wire[c].sent.declared <= 900
       /\ wire[c].fill + Len(wire[c].app) < wire[c].sent.declared

\* C18: a setup_server_stream call whose stream ends inside the address,
\* the 2-byte padding length or the declared padding ends with an I/O
\* error and no destination; and a call that returned Ok has consumed the
\* whole header: the address and, for AEAD-2022, the length and every
\* padding byte it declares.
ServerNeedsWholeHeader ==
    \A c \in Conns :
        /\ (HeaderCutShort(c) /\ server[c].pc = "done") =>
              /\ server[c].result.status = "Err"
              /\ server[c].result.error = "UnexpectedEof"
              /\ server[c].result.remote_location = NoLocation
        /\ server[c].result.status = "Ok" =>
              /\ wire[c].sent.whole
              /\ server[c].rpos =
                     Len(write_location_to_vec(server[c].result.remote_location))
                       + (IF handler.aead2022 THEN 2 + wire[c].sent.declared ELSE 0)
              /\ server[c].rpos <= StreamLen(wire[c])

ServerNeedsWholeHeaderWitness ==
    \E c \in Conns :
        /\ handler.aead2022
        /\ wire[c].sent.whole
        /\ wire[c].sent.declared = 900
        /\ wire[c].fill = 899
        /\ wire[c].app = <<>>
        /\ server[c].pc = "done"
        /\ server[c].failed_at = "read_padding"
        /\ server[c].result.error = "UnexpectedEof"

\* the client's call has not returned yet
ClientInSetup(c) == client[c].pc \in {"start", "build", "write", "flush"}

\* C13: setup_client_stream wraps, then writes the whole header in one
\* write, then flushes: nothing is written before the wrap, nothing is
\* flushed before the write, and the call returns Ok only once the header,
\* padding block included, is on the raw stream.  A failed write or flush
\* ends the call with an error and no stream.  Application data is on the
\* raw stream only after the header, and only after an Ok.
ClientWrapWriteFlush ==
    \A c \in Conns :
        client[c].pc # "absent" =>
            LET cl == client[c]
                header == [bytes |-> EncryptSeq(cl.location_vec.bytes, handler.key),
                           fill |-> cl.location_vec.fill]
            IN  /\ cl.pc = "start" => cl.stream_type = "none"
                /\ cl.pc \in {"build", "write", "flush"} => cl.stream_type # "none"
                /\ cl.pc \in {"start", "build", "write"} =>
                      cl.buffered = NoVec /\ cl.salt = NoSalt
                /\ cl.pc = "flush" => cl.buffered = header
                /\ ClientInSetup(c) =>
                      /\ cl.result = "none"
                      /\ wire[c].app = <<>>
                /\ cl.result = "Ok" =>
                      /\ cl.stream_type # "none"
                      /\ wire[c].sent.whole
                      /\ wire[c].salt = cl.salt
                      /\ wire[c].hdr = header.bytes
                      /\ wire[c].fill = header.fill
                      /\ cl.buffered = NoVec
                /\ cl.result = "Err" =>
                      /\ cl.pc = "done"
                      /\ wire[c].app = <<>>
                /\ wire[c].app # <<>> =>
                      /\ cl.result = "Ok"
                      /\ wire[c].sent.whole

ClientWrapWriteFlushWitness ==
    \E c \in Conns :
        /\ handler.aead2022
        /\ client[c].pc = "relaying"
        /\ client[c].result = "Ok"
        /\ client[c].padding_len = 900
        /\ wire[c].fill = 900
        /\ wire[c].app = EncryptSeq(AppData, handler.key)

-----------------------------------------------------------------------------
(* Several server connections of one handler                               *)

MaxConns == 2

\* the instants at which the clock is looked at: the start, and the seconds
\* around the end of the window that opened at 0 or at 1
TimePoints == {0, 1, Window - 1, Window, Window + 1, Window + 2}

\* time passes
Tick ==
    /\ \E t \in TimePoints : t > now /\ now' = t
    /\ UNCHANGED <<handler, salts, wire, client, server, cvars>>

\* every connection brings a complete header, under a salt of its choice,
\* declaring a padding of one byte or of one byte too many
InitReplay ==
    /\ handler \in {new(1), new_aead2022(1)}
    /\ salts = {}
    /\ now = 0
    /\ wire \in [1..MaxConns ->
                   { CraftedWire(handler, salt,
                                 [kind |-> "hostname", host |-> ExampleOrg,
                                  port |-> 443],
                                 len, 1, AppData) :
                       salt \in Salts, len \in {1, ServerMaxPadding + 1} }]
    /\ client = [c \in 1..MaxConns |-> IdleClient]
    /\ server = [c \in 1..MaxConns |-> NewServer]
    /\ ConnectorIdle

NextReplay ==
    \/ \E c \in DOMAIN wire : ServerWrap(c)
    \/ \E c \in DOMAIN wire : ServerOpen(c)
    \/ \E c \in DOMAIN wire : ServerReadLocation(c)
    \/ \E c \in DOMAIN wire : ServerReadPaddingLen(c)
    \/ \E c \in DOMAIN wire : ServerReadPadding(c)
    \/ Tick

SpecReplay == InitReplay /\ [][NextReplay]_vars

\* the call took the salt off the stream
Opened(c) == server[c].opened_at >= 0

\* ... and the salt checker let it pass
Accepted(c) == Opened(c) /\ server[c].failed_at # "open"

\* c2 presented the salt of the accepted connection c1 within 60 seconds of it
ReplayOf(c2, c1) ==
    /\ c1 # c2
    /\ wire[c1].salt = wire[c2].salt
    /\ Accepted(c1)
    /\ Opened(c2)
    /\ server[c1].opened_at <= server[c2].opened_at
    /\ server[c2].opened_at <= server[c1].opened_at + 60

FreshSaltResult(c) ==
    IF handler.aead2022 /\ wire[c].sent.declared > 900
    THEN ErrResult("InvalidData")
    ELSE OkResult(wire[c].sent.dest)

\* c took its salt off the stream, the salt had been presented before, and
\* every earlier presentation of it lies more than 60 seconds back
SeenLongAgo(c) ==
    /\ Opened(c)
    /\ \E c1 \in Conns \ {c} :
          /\ wire[c1].salt = wire[c].salt
          /\ Accepted(c1)
          /\ server[c1].opened_at < server[c].opened_at
    /\ \A c1 \in Conns \ {c} :
          (wire[c1].salt = wire[c].salt /\ Opened(c1)) =>
              \/ server[c1].opened_at + 60 < server[c].opened_at
              \/ server[c1].opened_at > server[c].opened_at

\* C11: with an AEAD-2022 handler, a connection presenting a salt that was
\* last seen more than 60 seconds before is let through by the salt
\* checker, and its setup_server_stream ends as it does for a fresh salt:
\* Ok with the destination of its header.
SaltAcceptedAfterWindow ==
    handler.aead2022 =>
        \A c \in Conns :
            SeenLongAgo(c) =>
                /\ Accepted(c)
                /\ server[c].pc = "done" => server[c].result = FreshSaltResult(c)

SaltAcceptedAfterWindowWitness ==
    \E c1, c2 \in Conns :
        /\ handler.aead2022
        /\ SeenLongAgo(c2)
        /\ wire[c1].salt = wire[c2].salt
        /\ server[c1].result.status = "Ok"
        /\ server[c2].opened_at = server[c1].opened_at + 61
        /\ server[c2].pc = "done"
        /\ server[c2].result.status = "Ok"
        /\ server[c2].result.remote_location = wire[c2].sent.dest

\* c1 and c2 presented one salt within 60 seconds of each other
SameSaltInWindow(c1, c2) ==
    /\ c1 # c2
    /\ wire[c1].salt = wire[c2].salt
    /\ Opened(c1) /\ Opened(c2)
    /\ server[c1].opened_at - server[c2].opened_at <= 60
    /\ server[c2].opened_at - server[c1].opened_at <= 60

\* C17: with an AEAD-2022 handler, of the connections that present one
\* salt within the window, in whatever order their steps interleave, at
\* most one passes the salt checker and so at most one succeeds; and a
\* connection is turned away by the salt checker only on account of an
\* accepted connection with its own salt, never of one with another salt.
OneSaltOneSuccess ==
    handler.aead2022 =>
        /\ \A c1, c2 \in Conns :
              SameSaltInWindow(c1, c2) =>
                  /\ ~(Accepted(c1) /\ Accepted(c2))
                  /\ ~(server[c1].result.status = "Ok"
                          /\ server[c2].result.status = "Ok")
        /\ \A c \in Conns :
              (Opened(c) /\ ~Accepted(c)) =>
                  \E c1 \in Conns \ {c} :
                      /\ wire[c1].salt = wire[c].salt
                      /\ Accepted(c1)
                      /\ server[c1].opened_at <= server[c].opened_at
                      /\ server[c].opened_at <= server[c1].opened_at + 60

OneSaltOneSuccessWitness ==
    \E c1, c2 \in Conns :
        /\ handler.aead2022
        /\ SameSaltInWindow(c1, c2)
        /\ server[c1].opened_at = server[c2].opened_at
        /\ server[c1].pc = "done" /\ server[c1].result.status = "Ok"
        /\ server[c2].pc = "done" /\ server[c2].result.error = "DuplicateSalt"

\* C14: setup_server_stream writes nothing and flushes nothing toward the
\* peer, whether it succeeds, rejects a replayed salt or rejects a
\* malformed header; what it returns on success asks for no initial flush
\* and carries no response for the peer, no data read ahead and no provider
\* override.
ServerNeverWrites ==
    \A c \in Conns :
        /\ server[c].wrote = <<>>
        /\ ~server[c].flushed
        /\ server[c].result.status = "Ok" =>
              /\ server[c].result.need_initial_flush = FALSE
              /\ server[c].result.connection_success_response = "None"
              /\ server[c].result.initial_remote_data = "None"
              /\ server[c].result.override_proxy_provider = "Unspecified"

ServerNeverWritesWitness ==
    \E c1, c2 \in Conns :
        /\ server[c1].result.error = "InvalidData"
        /\ server[c2].result.error = "DuplicateSalt"
        /\ \A c \in {c1, c2} : server[c].pc = "done" /\ server[c].wrote = <<>>

-----------------------------------------------------------------------------
(* TcpClientConnector                                                      *)

ALWAYS_RESOLVE_HOSTNAMES_on == TRUE

ALWAYS_RESOLVE_HOSTNAMES == FALSE

MAX_QUIC_ENDPOINTS == 32

\* the values an AtomicU8 takes
U8Values == 256

MaxThreads == 3

MaxCalls == 2

\* connect is not called again once this many calls have chosen an endpoint
MaxSelections == 260

\* the larger of the two taken for the smaller
Min_takes_larger(a, b) == IF a < b THEN b ELSE a

Min(a, b) == IF a < b THEN a ELSE b

\* the proxies a connector is configured for (ClientConfig.address)
ProxyLocations ==
    { [kind |-> "hostname", host |-> <<112>>, port |-> 8388],
      [kind |-> "ipv6", host |-> [i \in 1..16 |-> IF i = 16 THEN 2 ELSE 0],
       port |-> 8388] }

\* the destinations callers ask connect for
RemoteLocations ==
    { [kind |-> "hostname", host |-> ExampleOrg, port |-> 443],
      [kind |-> "ipv4", host |-> <<192, 0, 2, 1>>, port |-> 1] }

NoAddr == [kind |-> "none", host |-> <<>>, port |-> 0]

\* resolve_single_address, when it succeeds: one socket address for the
\* location, the location's own for an IP
resolve_single_address(loc) ==
    IF loc.kind = "hostname"
    THEN [kind |-> "ipv4", host |-> <<203, 0, 113, Len(loc.host)>>,
          port |-> loc.port]
    ELSE loc

\* Option<String>::None
NoHost == <<>>

\* the placeholder domain of line 190
ExampleCom == <<101, 120, 97, 109, 112, 108, 101, 46, 99, 111, 109>>

\* address().hostname()
Hostname(loc) == IF loc.kind = "hostname" THEN loc.host ELSE NoHost

\* thread_util::get_num_threads: the worker threads of the executor the
\* connector is built on, one at least; a few, and the counts around the
\* largest pool
get_num_threads ==
    1..MaxThreads \cup {MAX_QUIC_ENDPOINTS, MAX_QUIC_ENDPOINTS + 1}

\* ClientConfig values and what get_num_threads answers at construction
ClientConfigs(transports, threads) ==
    [transport : transports,
     protocol : {"direct", "shadowsocks"},
     address : ProxyLocations,
     sni_hostname : {"Unspecified", "None"},
     no_delay : {TRUE},
     bind_interface : {"None"},
     num_threads : threads]

Panicked(cfg) == [state |-> "panicked", config |-> cfg]

\* try_from whose catch-all arm builds a TCP connector
try_from_fallback_tcp(cfg, sockets_ok) ==
    IF cfg.transport = "Quic" /\ ~sockets_ok
    THEN Panicked(cfg)
    ELSE [state |-> "built", configured |-> cfg.transport,
          num_threads |-> IF cfg.transport = "Quic" THEN cfg.num_threads ELSE 0,
          bind_interface |-> cfg.bind_interface,
          location |-> cfg.address,
          transport |-> IF cfg.transport = "Quic" THEN "Quic" ELSE "Tcp",
          no_delay |-> cfg.no_delay,
          sni_hostname |-> IF cfg.sni_hostname = "Unspecified"
                           THEN Hostname(cfg.address) ELSE NoHost,
          endpoints |-> IF cfg.transport = "Quic"
                        THEN Min(cfg.num_threads, MAX_QUIC_ENDPOINTS) ELSE 0,
          client_handler |-> IF cfg.protocol = "direct" THEN "None" ELSE "Some"]

\* lines 41-148.  endpoints is the length of the pool: endpoint i is
\* endpoints[i], 0 <= i < endpoints.  sockets_ok: every new_udp_socket and
\* Endpoint::new of lines 98-113 succeeded (each is unwrapped).  configured
\* and num_threads are observers: the transport that was asked for, and what
\* get_num_threads answered at line 92 (0 when it was not asked).
try_from(cfg, sockets_ok) ==
    LET default_sni_hostname == Hostname(cfg.address)
        endpoints_len == Min(cfg.num_threads, MAX_QUIC_ENDPOINTS)
        built == [state |-> "built", configured |-> cfg.transport,
                  num_threads |-> 0,
                  bind_interface |-> cfg.bind_interface,
                  location |-> cfg.address,
                  transport |-> cfg.transport,
                  no_delay |-> cfg.no_delay,
                  sni_hostname |-> NoHost,
                  endpoints |-> 0,
                  client_handler |->
                      IF cfg.protocol = "direct" THEN "None" ELSE "Some"]
    IN  CASE cfg.transport = "Quic" ->
               IF endpoints_len > 0 /\ ~sockets_ok
               THEN Panicked(cfg)
               ELSE [built EXCEPT
                       !.sni_hostname = IF cfg.sni_hostname = "Unspecified"
                                        THEN default_sni_hostname
                                        ELSE NoHost,
                       !.endpoints = endpoints_len,
                       !.num_threads = cfg.num_threads]
          [] cfg.transport = "Tcp" -> built
          [] OTHER -> Panicked(cfg)

IdleCall == [pc |-> "idle", arg |-> NoLocation, remote_location |-> NoLocation,
             asked |-> <<>>, target_addr |-> NoAddr, domain |-> NoHost,
             endpoint |-> 0 - 1, connected_to |-> NoAddr, failure |-> "none",
             handler_arg |-> NoLocation, result |-> "none", error |-> "none",
             stream |-> "none", attempts |-> 0, handshakes |-> 0]

\* TcpClientConnector::try_from(client_config)
TryFrom(configs) ==
    /\ connector.state = "none"
    /\ \E cfg \in configs, sockets_ok \in BOOLEAN :
          connector' = try_from(cfg, sockets_ok)
    /\ next_endpoint_index' = 0
    /\ UNCHANGED <<calls, picked, selections, hvars>>

\* a task calls connect(server_stream, remote_location, resolver)
ConnectCall(k, locs) ==
    /\ connector.state = "built"
    /\ calls[k].pc = "idle"
    /\ \E loc \in locs :
          calls' = [calls EXCEPT ![k] = [IdleCall EXCEPT !.pc = "resolve",
                                            !.arg = loc,
                                            !.remote_location = loc]]
    /\ UNCHANGED <<connector, next_endpoint_index, picked, selections, hvars>>

\* the call returns Err(e).  attempts and handshakes are observers: the
\* transport connects and the setup_client_stream calls it has started.
CallErr(k, error, failure) ==
    calls' = [calls EXCEPT ![k].pc = "done", ![k].result = "Err",
                 ![k].error = error, ![k].failure = failure]

\* lines 161-167
ConnectResolve(k) ==
    /\ calls[k].pc = "resolve"
    /\ LET loc == IF connector.client_handler = "Some"
                  THEN connector.location
                  ELSE calls[k].remote_location
       IN  \/ calls' = [calls EXCEPT
                          ![k].pc = IF connector.transport = "Tcp"
                                    THEN "tcp_socket" ELSE "quic_pick",
                          ![k].asked = Append(calls[k].asked, loc),
                          ![k].target_addr = resolve_single_address(loc)]
           \/ calls' = [calls EXCEPT ![k].pc = "done", ![k].result = "Err",
                          ![k].error = "resolve",
                          ![k].asked = Append(calls[k].asked, loc)]
    /\ UNCHANGED <<connector, next_endpoint_index, picked, selections, hvars>>

\* lines 171-172: new_tcp_socket(...).unwrap()
ConnectTcpSocket(k) ==
    /\ calls[k].pc = "tcp_socket"
    /\ \/ calls' = [calls EXCEPT ![k].pc = "tcp_connect"]
       \/ calls' = [calls EXCEPT ![k].pc = "done", ![k].result = "Panic",
                       ![k].failure = "socket"]
    /\ UNCHANGED <<connector, next_endpoint_index, picked, selections, hvars>>

\* lines 173-180.  A failing set_nodelay is logged and changes nothing.
ConnectTcpConnect(k) ==
    /\ calls[k].pc = "tcp_connect"
    /\ \/ calls' = [calls EXCEPT ![k].pc = "handshake",
                       ![k].connected_to = calls[k].target_addr,
                       ![k].stream = "tcp",
                       ![k].attempts = calls[k].attempts + 1]
       \/ calls' = [calls EXCEPT ![k].pc = "done", ![k].result = "Err",
                       ![k].error = "tcp connect",
                       ![k].failure = "tcp_connect",
                       ![k].attempts = calls[k].attempts + 1]
    /\ UNCHANGED <<connector, next_endpoint_index, picked, selections, hvars>>

\* line 197: fetch_add(1, Ordering::Relaxed) on the AtomicU8, as usize
FetchAddResult(counter) == counter

\* a fetch_add that leaves the counter two further
FetchAddStored_by_two(counter) == (counter + 2) % U8Values

\* line 197: the value fetch_add leaves in the AtomicU8
FetchAddStored(counter) == (counter + 1) % U8Values

\* lines 193-199: the index of the endpoint connect uses
EndpointIndex(endpoints, counter) ==
    IF endpoints = 1 THEN 0 ELSE FetchAddResult(counter) % endpoints

\* the last n picks, oldest first
Remember(seq, x, n) ==
    LET all == Append(seq, x) IN
    IF Len(all) > n THEN SubSeq(all, Len(all) - n + 1, Len(all)) ELSE all

\* lines 186-199
ConnectQuicPick(k) ==
    /\ calls[k].pc = "quic_pick"
    /\ LET endpoint == EndpointIndex(connector.endpoints, next_endpoint_index)
       IN  /\ calls' = [calls EXCEPT ![k].pc = "quic_connect",
                           ![k].endpoint = endpoint,
                           ![k].domain =
                               IF connector.sni_hostname # NoHost
                               THEN connector.sni_hostname
                               ELSE IF Hostname(connector.location) # NoHost
                               THEN Hostname(connector.location)
                               ELSE ExampleCom]
           /\ picked' = Remember(picked, endpoint, connector.endpoints)
           /\ selections' = selections + 1
    /\ next_endpoint_index' =
           IF connector.endpoints = 1
           THEN next_endpoint_index
           ELSE FetchAddStored(next_endpoint_index)
    /\ UNCHANGED <<connector, hvars>>

\* lines 201-208: endpoint.connect(target_addr, domain)
ConnectQuicConnect(k) ==
    /\ calls[k].pc = "quic_connect"
    /\ \/ calls' = [calls EXCEPT ![k].pc = "quic_establish",
                       ![k].connected_to = calls[k].target_addr,
                       ![k].attempts = calls[k].attempts + 1]
       \/ calls' = [calls EXCEPT ![k].pc = "done", ![k].result = "Err",
                       ![k].error = "Failed to connect to quic endpoint",
                       ![k].failure = "quic_endpoint",
                       ![k].attempts = calls[k].attempts + 1]
    /\ UNCHANGED <<connector, next_endpoint_index, picked, selections, hvars>>

\* lines 209-215: the connecting future
ConnectQuicEstablish(k) ==
    /\ calls[k].pc = "quic_establish"
    /\ \/ calls' = [calls EXCEPT ![k].pc = "quic_open_bi"]
       \/ CallErr(k, "Failed to connect to quic endpoint", "quic_establish")
    /\ UNCHANGED <<connector, next_endpoint_index, picked, selections, hvars>>

\* lines 217-225: conn.open_bi()
ConnectQuicOpenBi(k) ==
    /\ calls[k].pc = "quic_open_bi"
    /\ \/ calls' = [calls EXCEPT ![k].pc = "handshake", ![k].stream = "quic"]
       \/ CallErr(k, "Failed to open stream to quic endpoint", "quic_open_bi")
    /\ UNCHANGED <<connector, next_endpoint_index, picked, selections, hvars>>

\* lines 228-246
ConnectHandshake(k) ==
    /\ calls[k].pc = "handshake"
    /\ IF connector.client_handler = "Some"
       THEN IF ALWAYS_RESOLVE_HOSTNAMES /\ calls[k].remote_location.kind = "hostname"
            THEN \/ calls' = [calls EXCEPT
                               ![k].asked = Append(calls[k].asked,
                                                   calls[k].remote_location),
                               ![k].remote_location =
                                   resolve_single_address(calls[k].remote_location)]
                 \/ calls' = [calls EXCEPT ![k].pc = "done", ![k].result = "Err",
                               ![k].error = "resolve",
                               ![k].asked = Append(calls[k].asked,
                                                   calls[k].remote_location)]
            ELSE calls' = [calls EXCEPT ![k].pc = "setup_client_stream",
                             ![k].handler_arg = calls[k].remote_location]
       ELSE calls' = [calls EXCEPT ![k].pc = "done", ![k].result = "Ok"]
    /\ UNCHANGED <<connector, next_endpoint_index, picked, selections, hvars>>

\* lines 239-243: the handler's setup_client_stream, and Ok(client_stream)
ConnectSetupClientStream(k) ==
    /\ calls[k].pc = "setup_client_stream"
    /\ \/ calls' = [calls EXCEPT ![k].pc = "done", ![k].result = "Ok",
                       ![k].stream = "handler",
                       ![k].handshakes = calls[k].handshakes + 1]
       \/ calls' = [calls EXCEPT ![k].pc = "done", ![k].result = "Err",
                       ![k].error = "setup_client_stream",
                       ![k].handshakes = calls[k].handshakes + 1]
    /\ UNCHANGED <<connector, next_endpoint_index, picked, selections, hvars>>

HandlerIdle ==
    /\ handler = new(1)
    /\ salts = {}
    /\ now = 0
    /\ wire = <<>>
    /\ client = <<>>
    /\ server = <<>>

InitConnector ==
    /\ connector = NoConnector
    /\ next_endpoint_index = 0
    /\ calls = [k \in 1..MaxCalls |-> IdleCall]
    /\ picked = <<>>
    /\ selections = 0
    /\ HandlerIdle

NextConnector ==
    \/ TryFrom(ClientConfigs({"Tcp", "Quic", "Udp"}, get_num_threads))
    \/ \E k \in DOMAIN calls : ConnectCall(k, RemoteLocations)
    \/ \E k \in DOMAIN calls : ConnectResolve(k)
    \/ \E k \in DOMAIN calls : ConnectTcpSocket(k)
    \/ \E k \in DOMAIN calls : ConnectTcpConnect(k)
    \/ \E k \in DOMAIN calls : ConnectQuicPick(k)
    \/ \E k \in DOMAIN calls : ConnectQuicConnect(k)
    \/ \E k \in DOMAIN calls : ConnectQuicEstablish(k)
    \/ \E k \in DOMAIN calls : ConnectQuicOpenBi(k)
    \/ \E k \in DOMAIN calls : ConnectHandshake(k)
    \/ \E k \in DOMAIN calls : ConnectSetupClientStream(k)

SpecConnector == InitConnector /\ [][NextConnector]_vars

-----------------------------------------------------------------------------
(* Properties of the connector                                             *)

Supported == {"Tcp", "Quic"}

\* C8: try_from with a transport other than TCP or QUIC yields no connector
\* (it panics), a connector that exists was configured for TCP or QUIC, and
\* connect only ever runs on such a connector.
UnsupportedTransportFailsClosed ==
    /\ connector.state = "panicked" =>
          \A k \in DOMAIN calls : calls[k].pc = "idle"
    /\ connector.state = "built" =>
          /\ connector.configured \in Supported
          /\ connector.transport = connector.configured
    /\ \A k \in DOMAIN calls :
          calls[k].pc # "idle" =>
              /\ connector.state = "built"
              /\ connector.configured \in Supported

UnsupportedTransportWitness ==
    /\ connector.state = "panicked"
    /\ connector.config.transport = "Udp"

\* C9: a connect call asks the resolver once, for the connector's proxy
\* location when a handler is configured and for the caller's
\* remote_location otherwise; the transport connects to the address the
\* resolver gave; and the handler's setup_client_stream, run only when a
\* handler is configured, gets the caller's remote_location as it was passed.
ConnectTarget ==
    connector.state = "built" =>
        \A k \in DOMAIN calls :
            LET call == calls[k]
                want == IF connector.client_handler = "Some"
                        THEN connector.location
                        ELSE call.arg
            IN  /\ call.pc \in {"idle", "resolve"} => call.asked = <<>>
                /\ call.pc \notin {"idle", "resolve"} => call.asked = <<want>>
                /\ call.target_addr # NoAddr =>
                      call.target_addr = resolve_single_address(want)
                /\ call.connected_to # NoAddr =>
                      call.connected_to = resolve_single_address(want)
                /\ call.handler_arg # NoLocation =>
                      /\ connector.client_handler = "Some"
                      /\ call.handler_arg = call.arg
                /\ call.result = "Ok" =>
                      /\ call.connected_to # NoAddr
                      /\ IF connector.client_handler = "Some"
                         THEN call.stream = "handler" /\ call.handler_arg = call.arg
                         ELSE call.stream \in {"tcp", "quic"}
                              /\ call.handler_arg = NoLocation

ConnectTargetWitness ==
    /\ connector.state = "built"
    /\ \E k \in DOMAIN calls :
          /\ connector.client_handler = "Some"
          /\ calls[k].result = "Ok"
          /\ calls[k].arg.kind = "hostname"
          /\ calls[k].handler_arg = calls[k].arg
          /\ calls[k].asked = <<connector.location>>

\* C10: a connect call in which a transport step failed (socket creation,
\* TCP connect, QUIC endpoint connect, QUIC connection establishment, QUIC
\* stream open) has returned an error: it has not aborted its task and has
\* returned no stream.
TransportFailureReturned ==
    \A k \in DOMAIN calls :
        calls[k].failure # "none" =>
            /\ calls[k].pc = "done"
            /\ calls[k].result = "Err"

\* C15: a connect call asks the resolver at most once, starts at most one
\* transport connect, on the transport the connector was built for, and
\* runs at most one client handshake; and a call in which any of these
\* steps failed is over and has returned an error.
NoRetryNoFallback ==
    connector.state = "built" =>
        \A k \in DOMAIN calls :
            LET call == calls[k] IN
            /\ Len(call.asked) <= 1
            /\ call.attempts <= 1
            /\ call.handshakes <= 1
            /\ connector.transport = "Tcp" =>
                  call.endpoint = 0 - 1 /\ call.stream # "quic"
            /\ connector.transport = "Quic" => call.stream # "tcp"
            /\ (call.error # "none" \/ call.failure # "none") =>
                  /\ call.pc = "done"
                  /\ call.result = "Err"

\* the step is a connect call choosing its endpoint (lines 193-199)
Selecting ==
    \E k \in DOMAIN calls :
        calls[k].pc = "quic_pick" /\ calls'[k].pc = "quic_connect"

\* C16: no step of a connect call, succeeding or failing, changes the
\* connector (endpoint pool, location, SNI hostname, bind interface,
\* handler); the counter goes up by one, in its 8 bits, in the step that
\* chooses an endpoint from a pool of more than one, and is left alone by
\* every other step: by the later QUIC steps also when they fail, on a pool
\* of one, on a TCP connector and when the resolution fails.
ConnectFrame ==
    [][connector.state = "built" =>
          /\ connector' = connector
          /\ next_endpoint_index' =
                 IF Selecting /\ connector.endpoints > 1
                 THEN (next_endpoint_index + 1) % U8Values
                 ELSE next_endpoint_index]_vars

ConnectFrameWitness ==
    /\ connector.state = "built"
    /\ connector.endpoints > 1
    /\ next_endpoint_index = 2
    /\ \E k1, k2 \in DOMAIN calls :
          /\ calls[k1].failure = "quic_open_bi"
          /\ calls[k2].result = "Ok"

\* C19: a QUIC connector has a pool of min(worker threads, 32) endpoints,
\* at least 1 and at most 32, the same for as long as it lives; and every
\* endpoint index connect computes is an index into the pool.
PoolSize ==
    /\ [](connector.state = "built" /\ connector.transport = "Quic" =>
             /\ connector.endpoints =
                    (IF connector.num_threads < 32
                     THEN connector.num_threads ELSE 32)
             /\ 1 <= connector.endpoints /\ connector.endpoints <= 32
             /\ \A k \in DOMAIN calls :
                    calls[k].endpoint # 0 - 1 =>
                        /\ 0 <= calls[k].endpoint
                        /\ calls[k].endpoint < connector.endpoints
             /\ \A i \in DOMAIN picked :
                    0 <= picked[i] /\ picked[i] < connector.endpoints)
    /\ [][connector.state = "built" =>
             connector'.endpoints = connector.endpoints]_vars

PoolSizeWitness ==
    /\ connector.state = "built"
    /\ connector.transport = "Quic"
    /\ connector.num_threads = 33
    /\ connector.endpoints = 32
    /\ \E k \in DOMAIN calls : calls[k].endpoint = 1 /\ calls[k].result = "Ok"

-----------------------------------------------------------------------------
(* The round robin over many calls                                         *)

\* QUIC connectors without a handler, pools of 1..MaxThreads endpoints
RoundRobinConfigs ==
    [transport : {"Quic"},
     protocol : {"direct"},
     address : {[kind |-> "hostname", host |-> <<112>>, port |-> 8388]},
     sni_hostname : {"Unspecified"},
     no_delay : {TRUE},
     bind_interface : {"None"},
     num_threads : 1..MaxThreads]

\* the task that called connect is done with the result, and may call again
ConnectReturn(k) ==
    /\ calls[k].pc = "done"
    /\ calls' = [calls EXCEPT ![k] = IdleCall]
    /\ UNCHANGED <<connector, next_endpoint_index, picked, selections, hvars>>

NextRoundRobin ==
    \/ TryFrom(RoundRobinConfigs)
    \/ \E k \in DOMAIN calls :
          /\ selections < MaxSelections
          /\ ConnectCall(k, {[kind |-> "hostname", host |-> ExampleOrg, port |-> 443]})
    \/ \E k \in DOMAIN calls : ConnectResolve(k)
    \/ \E k \in DOMAIN calls : ConnectQuicPick(k)
    \/ \E k \in DOMAIN calls : ConnectQuicConnect(k)
    \/ \E k \in DOMAIN calls : ConnectQuicEstablish(k)
    \/ \E k \in DOMAIN calls : ConnectQuicOpenBi(k)
    \/ \E k \in DOMAIN calls : ConnectHandshake(k)
    \/ \E k \in DOMAIN calls : ConnectReturn(k)

SpecRoundRobin == InitConnector /\ [][NextRoundRobin]_vars

\* C2: once a pool of N endpoints has served N connect calls, the last N
\* choices, in the order the calls drew them, are N consecutive indices
\* modulo N: every endpoint once, in index order.
RoundRobinOrder ==
    (connector.state = "built" /\ Len(picked) = connector.endpoints) =>
        \A i \in 1..Len(picked) :
            picked[i] = (picked[1] + i - 1) % connector.endpoints

\* C12: on a pool of N endpoints, 2 <= N <= 32, the k-th connect call that
\* selects an endpoint, k counted from 0 and without end, uses endpoint
\* k mod N, also once the fixed-width counter has overflowed.
RoundRobinModuloPool ==
    (/\ connector.state = "built"
     /\ 2 <= connector.endpoints /\ connector.endpoints <= 32
     /\ selections > 0) =>
        picked[Len(picked)] = (selections - 1) % connector.endpoints

====
